---- MODULE Spec2Model ----
(***************************************************************************)
(* FloatChat: the ingestion script (ingest_data.py) that parses one ARGO   *)
(* NetCDF file and bulk-loads it into argo_measurements, and the Streamlit *)
(* application (app.py) that serves the stored rows through a chat and a   *)
(* map query.                                                              *)
(***************************************************************************)
EXTENDS Integers, Sequences, FiniteSets, TLC

\* ------------------------------------------------------------------ bounds
MaxTs == 2          \* first sample times a generated file may start at
MaxProfiles == 2    \* profiles (distinct sample times) per generated file
MaxRuns == 2        \* runs of the ingestion script
MaxRequests == 2    \* requests served by one application session
MaxIngests == 1     \* runs of the script while the application is serving

\* ------------------------------------------------------------- input data
NaN == -1           \* a missing value of the dataframe

Floats == {"2902347", "2902348"}

Procs == {"ingest1", "ingest2"}

Main == "ingest1"

Variables == {"PLATFORM_NUMBER", "JULD", "LATITUDE", "LONGITUDE",
              "PRES_ADJUSTED", "TEMP_ADJUSTED", "PSAL_ADJUSTED"}

Measured == {"JULD", "LATITUDE", "LONGITUDE",
             "PRES_ADJUSTED", "TEMP_ADJUSTED", "PSAL_ADJUSTED"}

Columns == {"timestamp", "latitude", "longitude",
            "pressure", "temperature", "salinity"}

\* One row of ds.to_dataframe(): a sample of a profile.
SourceRow(t, lat, lon, p, temp, sal) ==
    [JULD |-> t, LATITUDE |-> lat, LONGITUDE |-> lon,
     PRES_ADJUSTED |-> p, TEMP_ADJUSTED |-> temp, PSAL_ADJUSTED |-> sal]

LonOf(fid, t) == IF fid = "2902347" THEN t ELSE t + 1

LatOf(fid, t) == IF fid = "2902347" THEN 11 ELSE -5

\* The variable left without a value in the k-th incomplete sample.
MissingAt(k) ==
    CASE k % 6 = 0 -> "PSAL_ADJUSTED"
      [] k % 6 = 1 -> "TEMP_ADJUSTED"
      [] k % 6 = 2 -> "PRES_ADJUSTED"
      [] k % 6 = 3 -> "JULD"
      [] k % 6 = 4 -> "LATITUDE"
      [] OTHER     -> "LONGITUDE"

\* The samples of the profile taken at time t: two complete levels, and between
\* them two levels in which one variable has no value.
ProfileRows(fid, t) ==
    LET full1 == SourceRow(t, LatOf(fid, t), LonOf(fid, t), 1, 20, 35)
        full2 == SourceRow(t, LatOf(fid, t), LonOf(fid, t), 2, 18, 35)
        hole1 == [full1 EXCEPT ![MissingAt(t)] = NaN]
        hole2 == [full2 EXCEPT ![MissingAt(t + 3)] = NaN]
    IN <<full1, hole1, hole2, full2>>

RECURSIVE FileRows(_, _, _)
FileRows(fid, t, n) ==
    IF n = 0 THEN <<>>
    ELSE ProfileRows(fid, t) \o FileRows(fid, t + 1, n - 1)

GoodFiles ==
    { [openable |-> TRUE, vars |-> Variables, platform |-> fid,
       rows |-> FileRows(fid, t, n)] :
        fid \in Floats, t \in 1..MaxTs, n \in 1..MaxProfiles }

BadFiles ==
    { [openable |-> FALSE, vars |-> Variables, platform |-> "2902347",
       rows |-> FileRows("2902347", 1, 1)],
      [openable |-> TRUE, vars |-> Variables \ {"PSAL_ADJUSTED"},
       platform |-> "2902347", rows |-> FileRows("2902347", 1, 1)],
      [openable |-> TRUE, vars |-> Variables \ {"PLATFORM_NUMBER"},
       platform |-> "2902347", rows |-> FileRows("2902347", 1, 1)],
      [openable |-> TRUE, vars |-> Variables, platform |-> "2902347",
       rows |-> <<SourceRow(1, 11, 1, 1, NaN, 35), SourceRow(1, 11, 1, 2, 18, NaN)>>] }

Files == GoodFiles \cup BadFiles

NoFile == [openable |-> FALSE, vars |-> {}, platform |-> "", rows |-> <<>>]

\* ---------------------------------------------------------------- helpers
SeqRange(s) == { s[i] : i \in DOMAIN s }

MinOf(S) == CHOOSE m \in S : \A x \in S : m <= x

\* ----------------------------------------------------------- parse_argo_file
\* core_data: the six columns renamed, with the float id attached.
CoreRow(r, platform_number) ==
    [timestamp |-> r.JULD, latitude |-> r.LATITUDE, longitude |-> r.LONGITUDE,
     pressure |-> r.PRES_ADJUSTED, temperature |-> r.TEMP_ADJUSTED,
     salinity |-> r.PSAL_ADJUSTED, float_id |-> platform_number]

Complete(row) == \A c \in Columns : row[c] # NaN

\* dropna on the three measurements only
dropnaMeasurements(core_data) ==
    LET kept[i \in 0..Len(core_data)] ==
            IF i = 0 THEN <<>>
            ELSE IF \A c \in {"pressure", "temperature", "salinity"} : core_data[i][c] # NaN
                 THEN Append(kept[i - 1], core_data[i])
                 ELSE kept[i - 1]
    IN kept[Len(core_data)]

dropna(core_data) ==
    LET kept[i \in 0..Len(core_data)] ==
            IF i = 0 THEN <<>>
            ELSE IF Complete(core_data[i])
                 THEN Append(kept[i - 1], core_data[i])
                 ELSE kept[i - 1]
    IN kept[Len(core_data)]

NoData == [ok |-> FALSE, rows |-> <<>>]

\* a parse that gives up on the missing variable but returns what it has
parse_argo_file_partial(file) ==
    IF ~file.openable
    THEN NoData
    ELSE [ok |-> TRUE,
          rows |-> dropna([i \in DOMAIN file.rows |-> CoreRow(file.rows[i], file.platform)])]

parse_argo_file(file) ==
    IF ~file.openable \/ ~(Variables \subseteq file.vars)
    THEN NoData
    ELSE [ok |-> TRUE,
          rows |-> dropna([i \in DOMAIN file.rows |-> CoreRow(file.rows[i], file.platform)])]

\* --------------------------------------------------------------- the script
first_timestamp(data) == MinOf({ data[i].timestamp : i \in DOMAIN data })

float_id(data) == data[1].float_id

\* the dedup query with timestamp > :ts
CountExistingStrict(rows, fid, ts) ==
    Cardinality({ i \in DOMAIN rows : rows[i].float_id = fid /\ rows[i].timestamp > ts })

\* the dedup query without the float_id condition
CountExistingAnyFloat(rows, fid, ts) ==
    Cardinality({ i \in DOMAIN rows : rows[i].timestamp >= ts })

\* the dedup query with timestamp = :ts
CountExistingSameTs(rows, fid, ts) ==
    Cardinality({ i \in DOMAIN rows : rows[i].float_id = fid /\ rows[i].timestamp = ts })

\* SELECT COUNT(*) FROM argo_measurements WHERE float_id = :fid AND timestamp >= :ts
CountExisting(rows, fid, ts) ==
    Cardinality({ i \in DOMAIN rows : rows[i].float_id = fid /\ rows[i].timestamp >= ts })

\* The decimal text Python writes for a number in an f-string.
RECURSIVE Digits(_)
Digits(n) == IF n < 10 THEN <<n>> ELSE Append(Digits(n \div 10), n % 10)

Repr(n) == [minus |-> n < 0, digits |-> Digits(IF n < 0 THEN -n ELSE n)]

\* The number the database reads from a decimal text.
RECURSIVE DigitsValue(_)
DigitsValue(d) ==
    IF Len(d) = 0 THEN 0
    ELSE 10 * DigitsValue(SubSeq(d, 1, Len(d) - 1)) + d[Len(d)]

Value(text) == IF text.minus THEN -DigitsValue(text.digits) ELSE DigitsValue(text.digits)

\* POINT(latitude longitude)
PointTextSwapped(row) == [x |-> Repr(row.latitude), y |-> Repr(row.longitude)]

\* f"POINT({row['longitude']} {row['latitude']})"
PointText(row) == [x |-> Repr(row.longitude), y |-> Repr(row.latitude)]

\* The geometry the location column stores for a POINT text.
ST_GeomFromText(wkt) == [x |-> Value(wkt.x), y |-> Value(wkt.y)]

Record(row) ==
    [timestamp |-> row.timestamp, latitude |-> row.latitude,
     longitude |-> row.longitude, pressure |-> row.pressure,
     temperature |-> row.temperature, salinity |-> row.salinity,
     float_id |-> row.float_id, location |-> PointText(row)]

RecordsToInsert(data) == [i \in DOMAIN data |-> Record(data[i])]

\* The row argo_table.insert() writes for a record.
InsertedRow(record) == [record EXCEPT !.location = ST_GeomFromText(record.location)]

VARIABLES
    tableExists,        \* argo_measurements exists
    table,              \* its committed rows, in insertion order
    pc,                 \* where each ingestion process stands
    argo_data,          \* the result of parse_argo_file
    result,             \* the count the dedup query returned
    records_to_insert,  \* the records built for the bulk insert
    pending,            \* rows written by the open transaction, not committed
    outcome,            \* how the last run of the process ended
    startTable,         \* the committed rows when the run started
    file_path,          \* the file the run reads
    prevFile,           \* the file the process's previous run read
    rolledBack,         \* the rows the last rollback of the process discarded
    prevOutcome,        \* outcome of the process's previous run
    runs,               \* runs started so far
    messages,           \* st.session_state.messages
    prompts,            \* the prompts submitted so far
    chatView,           \* what the last chat request rendered
    cache,              \* run_query's cache: spatial query text -> DataFrame
    profileCache,       \* run_query's cache: profile query text -> DataFrame
    mapView,            \* what the last map request rendered
    requests,           \* requests served so far
    uncaught            \* an exception escaped a request handler

ingestVars == <<tableExists, table, pc, argo_data, result, records_to_insert,
                pending, outcome, startTable, file_path, prevFile, rolledBack,
                prevOutcome, runs>>

appVars == <<messages, prompts, chatView, cache, profileCache, mapView, requests, uncaught>>

vars == <<ingestVars, appVars>>

\* What a statement of the transaction of p reads: the committed rows and its
\* own writes.
Visible(p) == table \o pending[p]

IngestInit ==
    /\ tableExists = FALSE
    /\ table = <<>>
    /\ pc = [p \in Procs |-> "idle"]
    /\ argo_data = [p \in Procs |-> NoData]
    /\ result = [p \in Procs |-> 0]
    /\ records_to_insert = [p \in Procs |-> <<>>]
    /\ pending = [p \in Procs |-> <<>>]
    /\ outcome = [p \in Procs |-> "none"]
    /\ startTable = [p \in Procs |-> <<>>]
    /\ file_path = [p \in Procs |-> NoFile]
    /\ prevFile = [p \in Procs |-> NoFile]
    /\ rolledBack = [p \in Procs |-> <<>>]
    /\ prevOutcome = [p \in Procs |-> "none"]
    /\ runs = 0

\* python ingest_data.py
StartRun(p) ==
    /\ pc[p] \in {"idle", "done"}
    /\ runs < MaxRuns
    /\ runs' = runs + 1
    /\ pc' = [pc EXCEPT ![p] = "schema"]
    /\ prevFile' = [prevFile EXCEPT ![p] = file_path[p]]
    /\ file_path' = [file_path EXCEPT ![p] = NoFile]
    /\ rolledBack' = [rolledBack EXCEPT ![p] = <<>>]
    /\ prevOutcome' = [prevOutcome EXCEPT ![p] = outcome[p]]
    /\ outcome' = [outcome EXCEPT ![p] = "running"]
    /\ startTable' = [startTable EXCEPT ![p] = table]
    /\ argo_data' = [argo_data EXCEPT ![p] = NoData]
    /\ result' = [result EXCEPT ![p] = 0]
    /\ records_to_insert' = [records_to_insert EXCEPT ![p] = <<>>]
    /\ UNCHANGED <<tableExists, table, pending>>

\* inspector.has_table / metadata.create_all
EnsureSchema(p) ==
    /\ pc[p] = "schema"
    /\ tableExists' = TRUE
    /\ pc' = [pc EXCEPT ![p] = "parse"]
    /\ UNCHANGED <<table, argo_data, result, records_to_insert, pending, outcome,
                   startTable, file_path, prevFile, rolledBack, prevOutcome, runs>>

\* argo_data = parse_argo_file(file_path); if argo_data is not None and not empty
ParseFile(p, file) ==
    /\ pc[p] = "parse"
    /\ LET data == parse_argo_file(file)
       IN /\ file_path' = [file_path EXCEPT ![p] = file]
          /\ argo_data' = [argo_data EXCEPT ![p] = data]
          /\ IF data.ok /\ data.rows # <<>>
             THEN /\ pc' = [pc EXCEPT ![p] = "begin"]
                  /\ UNCHANGED outcome
             ELSE /\ pc' = [pc EXCEPT ![p] = "done"]
                  /\ outcome' = [outcome EXCEPT ![p] = "nobatch"]
    /\ UNCHANGED <<tableExists, table, result, records_to_insert, pending,
                   startTable, prevFile, rolledBack, prevOutcome, runs>>

\* with engine.connect() as connection: with connection.begin() as transaction:
BeginTransaction(p) ==
    /\ pc[p] = "begin"
    /\ pc' = [pc EXCEPT ![p] = "count"]
    /\ pending' = [pending EXCEPT ![p] = <<>>]
    /\ UNCHANGED <<tableExists, table, argo_data, result, records_to_insert, outcome,
                   startTable, file_path, prevFile, rolledBack, prevOutcome, runs>>

\* the dedup query and the branch on its result
DedupCheck(p) ==
    /\ pc[p] = "count"
    /\ LET count == CountExisting(Visible(p), float_id(argo_data[p].rows),
                                  first_timestamp(argo_data[p].rows))
       IN /\ result' = [result EXCEPT ![p] = count]
          /\ pc' = [pc EXCEPT ![p] = IF count > 0 THEN "commit" ELSE "build"]
    /\ UNCHANGED <<tableExists, table, argo_data, records_to_insert, pending, outcome,
                   startTable, file_path, prevFile, rolledBack, prevOutcome, runs>>

\* the loop that builds records_to_insert
BuildRecords(p) ==
    /\ pc[p] = "build"
    /\ records_to_insert' = [records_to_insert EXCEPT ![p] = RecordsToInsert(argo_data[p].rows)]
    /\ pc' = [pc EXCEPT ![p] = "insert"]
    /\ UNCHANGED <<tableExists, table, argo_data, result, pending, outcome,
                   startTable, file_path, prevFile, rolledBack, prevOutcome, runs>>

\* connection.execute(argo_table.insert(), records_to_insert), one row at a time
InsertRow(p) ==
    /\ pc[p] = "insert"
    /\ Len(pending[p]) < Len(records_to_insert[p])
    /\ pending' = [pending EXCEPT ![p] = Append(@, InsertedRow(records_to_insert[p][Len(@) + 1]))]
    /\ pc' = [pc EXCEPT ![p] =
                IF Len(pending'[p]) = Len(records_to_insert[p]) THEN "commit" ELSE "insert"]
    /\ UNCHANGED <<tableExists, table, argo_data, result, records_to_insert, outcome,
                   startTable, file_path, prevFile, rolledBack, prevOutcome, runs>>

\* What is committed when the transaction block of p is left normally.
Committed(p) == table \o pending[p]

\* every inserted row committed on its own
RolledBackPartial(p) == table \o pending[p]

\* What is left when the transaction block of p is left by an exception.
RolledBack(p) == table

\* leaving the `with connection.begin()` block normally
Commit(p) ==
    /\ pc[p] = "commit"
    /\ table' = Committed(p)
    /\ pending' = [pending EXCEPT ![p] = <<>>]
    /\ outcome' = [outcome EXCEPT ![p] = IF result[p] > 0 THEN "skipped" ELSE "inserted"]
    /\ pc' = [pc EXCEPT ![p] = "done"]
    /\ UNCHANGED <<tableExists, argo_data, result, records_to_insert,
                   startTable, file_path, prevFile, rolledBack, prevOutcome, runs>>

\* an exception inside the transaction block: rollback, then the outer except
FailInTransaction(p) ==
    /\ pc[p] \in {"count", "build", "insert", "commit"}
    /\ table' = RolledBack(p)
    /\ pending' = [pending EXCEPT ![p] = <<>>]
    /\ rolledBack' = [rolledBack EXCEPT ![p] = pending[p]]
    /\ outcome' = [outcome EXCEPT ![p] = "failed"]
    /\ pc' = [pc EXCEPT ![p] = "done"]
    /\ UNCHANGED <<tableExists, argo_data, result, records_to_insert,
                   startTable, file_path, prevFile, prevOutcome, runs>>

\* an exception before the transaction is open: the outer except
FailOutsideTransaction(p) ==
    /\ pc[p] \in {"schema", "begin"}
    /\ outcome' = [outcome EXCEPT ![p] = "failed"]
    /\ pc' = [pc EXCEPT ![p] = "done"]
    /\ UNCHANGED <<tableExists, table, argo_data, result, records_to_insert, pending,
                   startTable, file_path, prevFile, rolledBack, prevOutcome, runs>>

IngestStep(p) ==
    \/ StartRun(p)
    \/ EnsureSchema(p)
    \/ \E file \in Files : ParseFile(p, file)
    \/ BeginTransaction(p)
    \/ DedupCheck(p)
    \/ BuildRecords(p)
    \/ InsertRow(p)
    \/ Commit(p)
    \/ FailInTransaction(p)
    \/ FailOutsideTransaction(p)

\* ------------------------------------------------------------------ app.py
Prompts == {"max temperature?", "how many floats?"}

\* What agent_executor.invoke does: it returns an output or raises.
AgentResults == {[ok |-> TRUE, text |-> "The answer is 20."],
                 [ok |-> FALSE, text |-> "quota exceeded"]}

error_message(e) ==
    IF e = "quota exceeded" THEN "An error occurred: quota exceeded"
    ELSE "An error occurred"

Message(role, content) == [role |-> role, content |-> content]

\* the chat handler without its except block
ChatHandlerNoExcept(history, prompt, agent) ==
    LET asked == Append(history, Message("user", prompt))
    IN IF agent.ok
       THEN [messages |-> Append(asked, Message("assistant", agent.text)),
             view |-> [kind |-> "markdown", text |-> agent.text],
             raised |-> FALSE]
       ELSE [messages |-> asked,
             view |-> [kind |-> "none", text |-> ""],
             raised |-> TRUE]

\* The chat handler: the user's message is appended, then the try block appends
\* the agent's output, or the except block appends the error message.
ChatHandler(history, prompt, agent) ==
    LET asked == Append(history, Message("user", prompt))
    IN IF agent.ok
       THEN [messages |-> Append(asked, Message("assistant", agent.text)),
             view |-> [kind |-> "markdown", text |-> agent.text],
             raised |-> FALSE]
       ELSE [messages |-> Append(asked, Message("assistant", error_message(agent.text))),
             view |-> [kind |-> "error", text |-> error_message(agent.text)],
             raised |-> FALSE]

\* The ring of a rectangle drawn on the map: SW, NW, NE, SE, SW, each [lon, lat].
Ring(minLon, minLat, maxLon, maxLat) ==
    << <<minLon, minLat>>, <<minLon, maxLat>>, <<maxLon, maxLat>>,
       <<maxLon, minLat>>, <<minLon, minLat>> >>

Drawings == { Ring(1, 10, 2, 12), Ring(2, -5, 4, 11), Ring(5, 20, 6, 21) }

\* min_lon, min_lat = bounds[0]; max_lon, max_lat = bounds[2]
Bounds(drawing) ==
    [min_lon |-> drawing[1][1], min_lat |-> drawing[1][2],
     max_lon |-> drawing[3][1], max_lat |-> drawing[3][2]]

\* The text of the spatial query: the four numbers as the f-string writes them.
QueryText(b) ==
    [min_lon |-> Repr(b.min_lon), min_lat |-> Repr(b.min_lat),
     max_lon |-> Repr(b.max_lon), max_lat |-> Repr(b.max_lat)]

Queries == { QueryText(Bounds(d)) : d \in Drawings }

\* ST_MakeEnvelope(min_lon, min_lat, max_lon, max_lat, 4326) of a query text
ST_MakeEnvelope(query) ==
    [min_lon |-> Value(query.min_lon), min_lat |-> Value(query.min_lat),
     max_lon |-> Value(query.max_lon), max_lat |-> Value(query.max_lat)]

\* containment that leaves out the boundary of the envelope
ST_IntersectsStrict(location, env) ==
    /\ env.min_lon < location.x /\ location.x < env.max_lon
    /\ env.min_lat < location.y /\ location.y < env.max_lat

\* ST_Intersects(location, ST_MakeEnvelope(min_lon, min_lat, max_lon, max_lat, 4326))
ST_Intersects(location, env) ==
    /\ env.min_lon <= location.x /\ location.x <= env.max_lon
    /\ env.min_lat <= location.y /\ location.y <= env.max_lat

\* SELECT DISTINCT float_id, latitude, longitude, timestamp
Selected(rows, env) ==
    { <<rows[i].float_id, rows[i].latitude, rows[i].longitude, rows[i].timestamp>> :
        i \in { j \in DOMAIN rows : ST_Intersects(rows[j].location, env) } }

\* ORDER BY timestamp DESC: every order of the tuples with no later timestamp
\* after an earlier one.
RECURSIVE OrderedDesc(_)
OrderedDesc(S) ==
    IF S = {} THEN {<<>>}
    ELSE LET latest == { x \in S : \A y \in S : y[4] <= x[4] }
         IN UNION { { <<x>> \o rest : rest \in OrderedDesc(S \ {x}) } : x \in latest }

\* The DataFrames the spatial query may return on the committed rows.
SpatialQuery(rows, query) == OrderedDesc(Selected(rows, ST_MakeEnvelope(query)))

\* SELECT * FROM argo_measurements WHERE float_id = '{selected_float}'
ProfileQuery(rows, fid) ==
    LET found[i \in 0..Len(rows)] ==
            IF i = 0 THEN <<>>
            ELSE IF rows[i].float_id = fid
                 THEN Append(found[i - 1], rows[i])
                 ELSE found[i - 1]
    IN found[Len(rows)]

Miss == [hit |-> FALSE, df |-> <<>>]

Hit(df) == [hit |-> TRUE, df |-> df]

View(kind, drawing, df, profile, error) ==
    [kind |-> kind, drawing |-> drawing, df |-> df, profile |-> profile, error |-> error]

NoView == View("none", Ring(0, 0, 0, 0), <<>>, <<>>, FALSE)

\* The except block of the map handler: st.error under what was rendered so far.
QueryFailed(kind, drawing, df) ==
    [view |-> View(kind, drawing, df, <<>>, TRUE), raised |-> FALSE]

AppInit ==
    /\ messages = <<>>
    /\ prompts = <<>>
    /\ chatView = [kind |-> "none", text |-> ""]
    /\ cache = [q \in Queries |-> Miss]
    /\ profileCache = [f \in Floats |-> Miss]
    /\ mapView = NoView
    /\ requests = 0
    /\ uncaught = FALSE

Init == IngestInit /\ AppInit

\* tab1: a prompt is submitted in the chat input
ChatSubmit(prompt, agent) ==
    /\ requests < MaxRequests
    /\ ~uncaught
    /\ requests' = requests + 1
    /\ prompts' = Append(prompts, prompt)
    /\ LET handled == ChatHandler(messages, prompt, agent)
       IN /\ messages' = handled.messages
          /\ chatView' = handled.view
          /\ uncaught' = handled.raised
    /\ UNCHANGED <<cache, profileCache, mapView>>

\* tab2: a rectangle is drawn; spatialUp and profileUp tell whether storage
\* answers the spatial query and the profile query of this request
MapDraw(drawing, spatialUp, profileUp) ==
    /\ requests < MaxRequests
    /\ ~uncaught
    /\ requests' = requests + 1
    /\ LET query == QueryText(Bounds(drawing))
       IN IF ~cache[query].hit /\ ~spatialUp
          THEN \* run_query raises
               /\ mapView' = QueryFailed("error", drawing, <<>>).view
               /\ uncaught' = QueryFailed("error", drawing, <<>>).raised
               /\ UNCHANGED <<cache, profileCache>>
          ELSE \E result_df \in (IF cache[query].hit THEN {cache[query].df}
                                 ELSE SpatialQuery(table, query)) :
               /\ cache' = [cache EXCEPT ![query] = Hit(result_df)]
               /\ IF result_df = <<>>
                  THEN \* st.warning
                       /\ mapView' = View("empty", drawing, <<>>, <<>>, FALSE)
                       /\ UNCHANGED <<profileCache, uncaught>>
                  ELSE LET selected_float == result_df[1][1]
                       IN IF ~profileCache[selected_float].hit /\ ~profileUp
                          THEN \* the profile query raises
                               /\ mapView' = QueryFailed("results", drawing, result_df).view
                               /\ uncaught' = QueryFailed("results", drawing, result_df).raised
                               /\ UNCHANGED profileCache
                          ELSE LET profile_df ==
                                       IF profileCache[selected_float].hit
                                       THEN profileCache[selected_float].df
                                       ELSE ProfileQuery(table, selected_float)
                               IN /\ profileCache' = [profileCache EXCEPT
                                                      ![selected_float] = Hit(profile_df)]
                                  /\ mapView' = View("results", drawing, result_df,
                                                     profile_df, FALSE)
                                  /\ UNCHANGED uncaught
    /\ UNCHANGED <<messages, prompts, chatView>>

\* One whole run of ingest_data.py as the application sees it: the rows of the
\* batch become visible all at once, or not at all.
ScriptRun(file) ==
    /\ runs < MaxIngests
    /\ \A p \in Procs : pc[p] = "idle"
    /\ runs' = runs + 1
    /\ tableExists' = TRUE
    /\ LET data == parse_argo_file(file)
       IN table' = IF /\ data.ok
                      /\ data.rows # <<>>
                      /\ CountExisting(table, float_id(data.rows),
                                       first_timestamp(data.rows)) = 0
                   THEN table \o [i \in DOMAIN data.rows |-> InsertedRow(Record(data.rows[i]))]
                   ELSE table
    /\ UNCHANGED <<pc, argo_data, result, records_to_insert, pending, outcome,
                   startTable, file_path, prevFile, rolledBack, prevOutcome>>

\* ---------------------------------------------------------- specifications
\* the script run again and again, one run after the other
Next == IngestStep(Main) /\ UNCHANGED appVars

Spec == Init /\ [][Next]_vars

\* two runs of the script at the same time
NextConcurrent == (\E p \in Procs : IngestStep(p)) /\ UNCHANGED appVars

SpecConcurrent == Init /\ [][NextConcurrent]_vars

\* one session of the application, while the script is run now and then
NextServe ==
    \/ \E prompt \in Prompts, agent \in AgentResults :
          ChatSubmit(prompt, agent) /\ UNCHANGED ingestVars
    \/ \E drawing \in Drawings, spatialUp \in BOOLEAN, profileUp \in BOOLEAN :
          MapDraw(drawing, spatialUp, profileUp) /\ UNCHANGED ingestVars
    \/ \E file \in Files : ScriptRun(file) /\ UNCHANGED appVars

SpecServe == Init /\ [][NextServe]_vars

\* ------------------------------------------------------------------ claims
Batch(p) == argo_data[p].rows

HasBatch(p) == argo_data[p].ok /\ Batch(p) # <<>>

\* The run of p has parsed its file.
Parsed(p) == file_path[p] # NoFile

\* The stored form of a batch: each row with the point of its own coordinates.
Stored(batch) ==
    [i \in DOMAIN batch |->
        [timestamp |-> batch[i].timestamp, latitude |-> batch[i].latitude,
         longitude |-> batch[i].longitude, pressure |-> batch[i].pressure,
         temperature |-> batch[i].temperature, salinity |-> batch[i].salinity,
         float_id |-> batch[i].float_id,
         location |-> [x |-> batch[i].longitude, y |-> batch[i].latitude]]]

\* Storage holds a row of float fid taken at ts or later.
Covered(rows, fid, ts) ==
    \E i \in DOMAIN rows : rows[i].float_id = fid /\ rows[i].timestamp >= ts

BatchFloat(p) == Batch(p)[1].float_id

BatchMin(p) ==
    CHOOSE m \in { Batch(p)[i].timestamp : i \in DOMAIN Batch(p) } :
        \A i \in DOMAIN Batch(p) : m <= Batch(p)[i].timestamp

\* The run of Main reads the file its previous run read, and that run went
\* through its transaction without a storage error.
Rerun ==
    /\ Parsed(Main)
    /\ HasBatch(Main)
    /\ prevFile[Main] = file_path[Main]
    /\ prevOutcome[Main] \in {"inserted", "skipped"}

\* C1: when the script is run a second time on the file of the run before, and
\* that run committed, the second run never reaches the insert: it takes the skip
\* branch, writes nothing, and the stored rows stay those left by the first run.
C1_Idempotent ==
    Rerun =>
        /\ pc[Main] \notin {"build", "insert"}
        /\ pending[Main] = <<>>
        /\ table = startTable[Main]
        /\ pc[Main] = "commit" => result[Main] > 0
        /\ pc[Main] = "done" => outcome[Main] \in {"skipped", "failed"}

C1_Witness ==
    /\ Rerun
    /\ pc[Main] = "done"
    /\ outcome[Main] = "skipped"
    /\ prevOutcome[Main] = "inserted"
    /\ Len(table) = Len(Batch(Main))

\* C2: the rows of a batch become visible only by the commit, and then all of
\* them at once: after a run that failed inside its transaction storage is what
\* it was before the run, and after a run that inserted it is the rows before
\* the run followed by the whole batch.
C2_Atomic ==
    IF pc[Main] = "done" /\ outcome[Main] = "inserted"
    THEN table = startTable[Main] \o Stored(Batch(Main))
    ELSE table = startTable[Main]

C2_Witness ==
    /\ pc[Main] = "done"
    /\ outcome[Main] = "failed"
    /\ Len(rolledBack[Main]) > 0
    /\ Len(rolledBack[Main]) < Len(records_to_insert[Main])
    /\ table = startTable[Main]

\* C4: a run with a batch skips it exactly when storage holds a row of the
\* batch's float taken at or after the batch's first sample, and otherwise
\* inserts the whole batch; rows of other floats play no part.
C4_DedupDecision ==
    (Parsed(Main) /\ HasBatch(Main)) =>
        LET covered == Covered(startTable[Main], BatchFloat(Main), BatchMin(Main))
        IN /\ pc[Main] \in {"build", "insert"} => ~covered
           /\ pc[Main] = "commit" =>
                 /\ result[Main] > 0 <=> covered
                 /\ pending[Main] = IF covered THEN <<>> ELSE Stored(Batch(Main))
           /\ (pc[Main] = "done" /\ outcome[Main] = "skipped") =>
                 covered /\ table = startTable[Main]
           /\ (pc[Main] = "done" /\ outcome[Main] = "inserted") =>
                 ~covered /\ table = startTable[Main] \o Stored(Batch(Main))

C4_Witness ==
    /\ pc[Main] = "done"
    /\ outcome[Main] = "inserted"
    /\ \E i \in DOMAIN startTable[Main] :
          /\ startTable[Main][i].float_id # BatchFloat(Main)
          /\ startTable[Main][i].timestamp >= BatchMin(Main)

SourceComplete(r) == \A v \in Measured : r[v] # NaN

\* C5: every stored row, and every row written by an open transaction, has all
\* six values; and the batch parsed from a file is its complete source rows, in
\* order, and none of its incomplete ones.
C5_Complete ==
    /\ \A i \in DOMAIN table : \A c \in Columns : table[i][c] # NaN
    /\ \A i \in DOMAIN pending[Main] : \A c \in Columns : pending[Main][i][c] # NaN
    /\ (Parsed(Main) /\ argo_data[Main].ok) =>
          LET src == file_path[Main].rows
              kept == { i \in DOMAIN src : SourceComplete(src[i]) }
          IN /\ Len(Batch(Main)) = Cardinality(kept)
             /\ \A i \in kept :
                   LET k == Cardinality({ j \in kept : j <= i })
                   IN /\ Batch(Main)[k].timestamp = src[i].JULD
                      /\ Batch(Main)[k].latitude = src[i].LATITUDE
                      /\ Batch(Main)[k].longitude = src[i].LONGITUDE
                      /\ Batch(Main)[k].pressure = src[i].PRES_ADJUSTED
                      /\ Batch(Main)[k].temperature = src[i].TEMP_ADJUSTED
                      /\ Batch(Main)[k].salinity = src[i].PSAL_ADJUSTED

C5_Witness ==
    /\ pc[Main] = "done"
    /\ outcome[Main] = "inserted"
    /\ Len(table) > 0
    /\ Len(table) < Len(file_path[Main].rows)
    /\ \E i \in DOMAIN file_path[Main].rows : file_path[Main].rows[i].LONGITUDE = NaN
    /\ \E i \in DOMAIN file_path[Main].rows : file_path[Main].rows[i].PSAL_ADJUSTED = NaN

IsPrefix(s, t) == Len(s) <= Len(t) /\ \A i \in DOMAIN s : s[i] = t[i]

LocationMatches(row) == row.location.x = row.longitude /\ row.location.y = row.latitude

\* C6: the location of every row, stored or written by an open transaction, is
\* the point (x = longitude, y = latitude) of that row, and no step changes or
\* removes a stored row.
C6_LocationDerived ==
    /\ [](/\ \A i \in DOMAIN table : LocationMatches(table[i])
          /\ \A i \in DOMAIN pending[Main] : LocationMatches(pending[Main][i]))
    /\ [][IsPrefix(table, table')]_vars

C6_Witness ==
    /\ Len(table) > Len(startTable[Main])
    /\ Len(startTable[Main]) > 0
    /\ \E i \in DOMAIN table : table[i].longitude # table[i].latitude

Unreadable(file) == ~file.openable \/ \E v \in Variables : v \notin file.vars

NothingComplete(file) == \A i \in DOMAIN file.rows : ~SourceComplete(file.rows[i])

\* C7: a run whose file cannot be opened or lacks a required variable gets no
\* batch at all, and it, like a run whose batch is empty, ends right after the
\* parse: no transaction, no dedup query, no insert, storage unchanged.
C7_ParseFailure ==
    Parsed(Main) =>
        /\ Unreadable(file_path[Main]) => argo_data[Main] = [ok |-> FALSE, rows |-> <<>>]
        /\ (Unreadable(file_path[Main]) \/ NothingComplete(file_path[Main])) =>
              /\ pc[Main] = "done"
              /\ outcome[Main] = "nobatch"
              /\ Batch(Main) = <<>>
              /\ result[Main] = 0
              /\ records_to_insert[Main] = <<>>
              /\ pending[Main] = <<>>
              /\ rolledBack[Main] = <<>>
              /\ table = startTable[Main]

C7_Witness ==
    /\ pc[Main] = "done"
    /\ outcome[Main] = "nobatch"
    /\ file_path[Main].openable
    /\ "PSAL_ADJUSTED" \notin file_path[Main].vars
    /\ Len(file_path[Main].rows) > 0
    /\ Len(table) > 0

\* C10: a step that adds rows to storage adds one batch of one float, and every
\* row stored before for that float is strictly earlier than the batch's first
\* sample; and once storage covers (float, time) it covers it for ever, so a
\* batch skipped once is skipped in every later run.
C10_OrderDependent ==
    [][ /\ table' # table =>
              \E n \in 1..Len(table') :
                 LET new == SubSeq(table', Len(table) + 1, Len(table'))
                 IN /\ Len(table') = Len(table) + n
                    /\ IsPrefix(table, table')
                    /\ \A i \in DOMAIN new : new[i].float_id = new[1].float_id
                    /\ \A i \in DOMAIN table : \A j \in DOMAIN new :
                          table[i].float_id = new[1].float_id =>
                              table[i].timestamp < new[j].timestamp
        /\ \A fid \in Floats : \A ts \in 1..(MaxTs + MaxProfiles) :
              Covered(table, fid, ts) => Covered(table', fid, ts)
      ]_vars

\* An older profile of a float, none of whose samples is stored, is skipped
\* because a newer profile of the float is stored.
C10_Witness ==
    /\ pc[Main] = "done"
    /\ outcome[Main] = "skipped"
    /\ HasBatch(Main)
    /\ \A i \in DOMAIN Batch(Main) : \A j \in DOMAIN table :
          table[j].float_id = BatchFloat(Main) =>
              Batch(Main)[i].timestamp < table[j].timestamp
    /\ \E j \in DOMAIN table : table[j].float_id = BatchFloat(Main)

\* C3: two runs of the script on the same file at the same time never both find
\* a count of zero and both insert; storage never holds a row twice.
C3_NoConcurrentDuplicate ==
    /\ \A p \in Procs : \A q \in Procs \ {p} :
          ~ /\ Parsed(p) /\ Parsed(q)
            /\ file_path[p] = file_path[q]
            /\ pc[p] = "done" /\ outcome[p] = "inserted" /\ result[p] = 0
            /\ pc[q] = "done" /\ outcome[q] = "inserted" /\ result[q] = 0
    /\ \A i \in DOMAIN table : \A j \in DOMAIN table : i # j => table[i] # table[j]

\* The tuples of the rows whose location is inside or on the boundary of the
\* drawn rectangle.
Expected(rows, drawing) ==
    LET minLon == drawing[1][1]
        minLat == drawing[1][2]
        maxLon == drawing[3][1]
        maxLat == drawing[3][2]
        inside == { i \in DOMAIN rows :
                      /\ minLon <= rows[i].location.x /\ rows[i].location.x <= maxLon
                      /\ minLat <= rows[i].location.y /\ rows[i].location.y <= maxLat }
    IN { <<rows[i].float_id, rows[i].latitude, rows[i].longitude, rows[i].timestamp>> :
           i \in inside }

\* df lists exactly the tuples of S, each once, latest first.
Exactly(df, S) ==
    /\ SeqRange(df) = S
    /\ Len(df) = Cardinality(S)
    /\ \A i \in DOMAIN df : \A j \in DOMAIN df : i < j => df[i][4] >= df[j][4]

\* The step is a map request that rendered the result of the spatial query.
MapAnswered ==
    /\ requests' = requests + 1
    /\ prompts' = prompts
    /\ mapView'.kind \in {"results", "empty"}

\* C8 as stated: every map request returns exactly the tuples of the rows stored
\* at the time of the request that lie in the box, latest first.
C8_ExactOnStored ==
    [][MapAnswered => Exactly(mapView'.df, Expected(table, mapView'.drawing))]_vars

\* C8 as amended: the first successful query of a box returns exactly the tuples
\* of the rows then stored that lie in the box, latest first; a later request
\* for the same box returns that same result again, which is exact for the rows
\* stored when the box was first queried.
C8_ExactWhenFirstRun ==
    /\ [][MapAnswered =>
            IF cache[QueryText(Bounds(mapView'.drawing))].hit
            THEN mapView'.df = cache[QueryText(Bounds(mapView'.drawing))].df
            ELSE Exactly(mapView'.df, Expected(table, mapView'.drawing))]_vars
    /\ [](\A d \in Drawings :
            cache[QueryText(Bounds(d))].hit =>
                \E k \in 0..Len(table) :
                    Exactly(cache[QueryText(Bounds(d))].df,
                            Expected(SubSeq(table, 1, k), d)))

\* A result is shown that leaves out a stored row outside the box and lists a
\* tuple once for several stored rows.
C8_Witness ==
    /\ mapView.kind = "results"
    /\ Exactly(mapView.df, Expected(table, mapView.drawing))
    /\ Len(mapView.df) < Cardinality({ i \in DOMAIN table :
                                          <<table[i].float_id, table[i].latitude,
                                            table[i].longitude, table[i].timestamp>>
                                              \in SeqRange(mapView.df) })
    /\ \E i \in DOMAIN table :
          <<table[i].float_id, table[i].latitude, table[i].longitude, table[i].timestamp>>
              \notin SeqRange(mapView.df)

AssistantTexts == {"The answer is 20.", "An error occurred: quota exceeded"}

\* C9: no exception escapes a request handler, so the session goes on; the
\* history is, for each prompt submitted, the user's message followed by one
\* assistant message (the answer or the error text); a failure is shown as an
\* error; and no step changes or removes an entry of the history.
C9_Recovered ==
    /\ [](/\ ~uncaught
          /\ Len(messages) = 2 * Len(prompts)
          /\ \A i \in DOMAIN prompts :
                /\ messages[2 * i - 1] = [role |-> "user", content |-> prompts[i]]
                /\ messages[2 * i].role = "assistant"
                /\ messages[2 * i].content \in AssistantTexts
          /\ chatView.kind = "error" =>
                /\ messages[Len(messages)].content = chatView.text
                /\ chatView.text = "An error occurred: quota exceeded"
          /\ mapView.kind = "error" => mapView.error)
    /\ [][/\ IsPrefix(messages, messages')
          /\ prompts' # prompts => Len(messages') = Len(messages) + 2]_vars

C9_Witness ==
    /\ Len(messages) = 4
    /\ messages[2].content = "An error occurred: quota exceeded"
    /\ messages[4].content = "The answer is 20."
    /\ ~uncaught

====
